---- MODULE Spec2Model ----
(***************************************************************************)
(* CSRF protection engine of lib/csrf/server.ts: token codec, HMAC signing *)
(* and verification, multi-token cookie rotation with a grace period, and  *)
(* the per-request decision procedure csrfProtect.                         *)
(*                                                                         *)
(* Representation of strings.  A token or cookie string is kept in the     *)
(* form its two split() calls see it: a sequence of '|'-separated parts,   *)
(* each a sequence of '.'-separated segments.  A segment is a base64url    *)
(* spelling: the bytes it decodes to (b) and which spelling of those bytes *)
(* it is (alt = 0 is the canonical, unpadded spelling toBase64Url writes;  *)
(* alt = 1 another spelling that Buffer.from(s, "base64") decodes to the   *)
(* same bytes; alt = 2 a segment that contains a '|').  Two strings are    *)
(* equal exactly when their representations are equal.  null is the empty  *)
(* sequence of parts; "" is one part holding one empty segment.            *)
(* Header values that the code only compares or searches (Origin, Referer, *)
(* Accept, Sec-Fetch-*, the path) are ordinary character strings.          *)
(***************************************************************************)
EXTENDS Integers, Sequences, FiniteSets, TLC

VARIABLES now, jar, cfg, op, req, res, rot, prevRot, nRot, nMint, vin, vout, mw, build, held

vars == <<now, jar, cfg, op, req, res, rot, prevRot, nRot, nMint, vin, vout, mw, build, held>>

----------------------------------------------------------------------------
(* Bounds of the model *)

MaxNow == 6
MaxRot == 2
MaxMint == 3
ttlSeconds == 2
allowedSkewSeconds == 1
gracePeriod == 1
HashBase == 17

----------------------------------------------------------------------------
(* Codec *)

NULL == <<>>
EmptySeg == [b |-> <<>>, alt |-> 0]
EmptyTok == <<EmptySeg>>
EmptyStr == <<EmptyTok>>

\* JavaScript truthiness of a string | null value: !s
Falsy(s) == s = NULL \/ s = EmptyStr

base64ToBytes(b64) == b64.b

bytesToBase64(bytes) == [b |-> bytes, alt |-> 0]

toBase64Url(input) == bytesToBase64(input)

fromBase64Url(b64url) == base64ToBytes(b64url)

\* value < 2^31 throughout the model
u32ToBigEndianBytes(value) ==
    << (value \div 16777216) % 256,
       (value \div 65536) % 256,
       (value \div 256) % 256,
       value % 256 >>

bigEndianBytesToU32(bytes) ==
    IF Len(bytes) # 4 THEN 0
    ELSE bytes[1] * 16777216 + bytes[2] * 65536 + bytes[3] * 256 + bytes[4]

\* token.split("."): the segments of a string; a '|' between two parts stays
\* inside the segment that surrounds it
RECURSIVE SplitDot(_)
SplitDot(s) ==
    IF Len(s) = 1 THEN s[1]
    ELSE LET head == s[1]
             rest == SplitDot(Tail(s))
             glued == [b |-> head[Len(head)].b \o rest[1].b, alt |-> 2]
         IN  SubSeq(head, 1, Len(head) - 1) \o <<glued>> \o Tail(rest)

----------------------------------------------------------------------------
(* Signer *)

\* An injective numbering of byte strings whose bytes are below HashBase - 1
RECURSIVE Enc(_)
Enc(s) == IF s = <<>> THEN 0 ELSE (Head(s) + 1) + HashBase * Enc(Tail(s))

\* HMAC-SHA-256 as an ideal MAC: a fixed-length digest; the digests of distinct
\* (key, message) pairs of the model are distinct and, being multiples of 3,
\* never one bit apart
hmacSha256(message, secretRaw) == u32ToBigEndianBytes(3 * Enc(secretRaw \o message))

signedTokenAt(secret, nonceBytes, issuedAt) ==
    LET tsBytes == u32ToBigEndianBytes(issuedAt)
        toSign == nonceBytes \o tsBytes
        sig == hmacSha256(toSign, base64ToBytes(secret))
    IN  << <<toBase64Url(nonceBytes), toBase64Url(tsBytes), toBase64Url(sig)>> >>

\* nonceBytes is the outcome of crypto.getRandomValues, clock of Date.now()
generateSignedToken(secret, nonceBytes, clock) == signedTokenAt(secret, nonceBytes, clock)

----------------------------------------------------------------------------
(* TokenSet *)

parseMultipleTokens(cookieValue) ==
    IF Falsy(cookieValue) THEN <<>>
    ELSE LET kept == SelectSeq(cookieValue, LAMBDA t : t # EmptyTok)
         IN  [i \in 1..Len(kept) |-> <<kept[i]>>]

RECURSIVE combineTokens(_)
combineTokens(tokens) ==
    IF tokens = <<>> THEN EmptyStr
    ELSE IF Len(tokens) = 1 THEN tokens[1]
    ELSE tokens[1] \o combineTokens(Tail(tokens))

\* mutant: the grace test written with < instead of <=
cleanupKeeps_exclusive(token, clock, gracePeriodSeconds) ==
    LET parts == SplitDot(token)
    IN  /\ Len(parts) = 3
        /\ Len(fromBase64Url(parts[2])) = 4
        /\ clock - bigEndianBytesToU32(fromBase64Url(parts[2])) < gracePeriodSeconds

\* mutant: the age of an old token is not tested
cleanupKeeps_anyAge(token, clock, gracePeriodSeconds) ==
    LET parts == SplitDot(token)
    IN  /\ Len(parts) = 3
        /\ Len(fromBase64Url(parts[2])) = 4

cleanupKeeps(token, clock, gracePeriodSeconds) ==
    LET parts == SplitDot(token)
    IN  /\ Len(parts) = 3
        /\ Len(fromBase64Url(parts[2])) = 4
        /\ clock - bigEndianBytesToU32(fromBase64Url(parts[2])) <= gracePeriodSeconds

cleanupExpiredTokens(tokens, clock, gracePeriodSeconds) ==
    SelectSeq(tokens, LAMBDA t : cleanupKeeps(t, clock, gracePeriodSeconds))

----------------------------------------------------------------------------
(* Verifier *)

\* mutant: the comparison loop stops after the first byte
xorCompare_firstByteOnly(expected, provided) ==
    \A i \in 1..1 : expected[i] = provided[i]

\* the XOR-accumulate loop: result stays 0 iff every byte pair is equal
xorCompare(expected, provided) ==
    \A i \in 1..Len(expected) : expected[i] = provided[i]

\* the Verifier with one of its checks altered
verifyVariant(token, secret, ttl, skew, clock, zeroCheck, expiryInclusive) ==
    LET parts == SplitDot(token)
    IN  IF Len(parts) # 3 THEN FALSE
        ELSE
        LET nonceBytes == fromBase64Url(parts[1])
            tsBytes == fromBase64Url(parts[2])
            issuedAt == bigEndianBytesToU32(tsBytes)
            expectedSig == hmacSha256(nonceBytes \o tsBytes, base64ToBytes(secret))
            providedSig == fromBase64Url(parts[3])
        IN  /\ zeroCheck => issuedAt # 0
            /\ zeroCheck => Len(tsBytes) = 4
            /\ ~(clock + skew < issuedAt)
            /\ IF expiryInclusive THEN ~(clock - issuedAt > ttl + skew)
               ELSE ~(clock - issuedAt >= ttl + skew)
            /\ expectedSig = providedSig

\* mutant: the expiry test written with >= instead of >
verifySignedTokenWithTTL_expiryExclusive(token, secret, ttl, skew, clock) ==
    verifyVariant(token, secret, ttl, skew, clock, TRUE, FALSE)

\* mutant: the structural checks on the timestamp segment left out
verifySignedTokenWithTTL_noTimestampChecks(token, secret, ttl, skew, clock) ==
    verifyVariant(token, secret, ttl, skew, clock, FALSE, TRUE)

verifySignedTokenWithTTL(token, secret, ttl, skew, clock) ==
    LET parts == SplitDot(token)
    IN  IF Len(parts) # 3 THEN FALSE
        ELSE
        LET nonceBytes == fromBase64Url(parts[1])
            tsBytes == fromBase64Url(parts[2])
        IN  IF Len(tsBytes) # 4 THEN FALSE
            ELSE
            LET issuedAt == bigEndianBytesToU32(tsBytes)
            IN  IF issuedAt = 0 THEN FALSE
                ELSE IF clock + skew < issuedAt THEN FALSE
                ELSE IF clock - issuedAt > ttl + skew THEN FALSE
                ELSE
                LET toSign == nonceBytes \o tsBytes
                    expectedSig == hmacSha256(toSign, base64ToBytes(secret))
                    providedSig == fromBase64Url(parts[3])
                IN  IF Len(expectedSig) # Len(providedSig) THEN FALSE
                    ELSE xorCompare(expectedSig, providedSig)

\* length check, then XOR over the UTF-16 units: string equality
validateCSRFToken(requestToken, cookieToken) ==
    IF Falsy(requestToken) \/ Falsy(cookieToken) THEN FALSE
    ELSE requestToken = cookieToken

\* mutant: the header token is not compared with the cookie tokens
verifyTokenWithGracePeriod_noMatch(cookieValue, headerToken, secret, ttl, skew, clock) ==
    IF Falsy(cookieValue) \/ Falsy(headerToken) THEN FALSE
    ELSE verifySignedTokenWithTTL(headerToken, secret, ttl, skew, clock)

verifyTokenWithGracePeriod(cookieValue, headerToken, secret, ttl, skew, clock) ==
    IF Falsy(cookieValue) \/ Falsy(headerToken) THEN FALSE
    ELSE
    LET cookieTokens == parseMultipleTokens(cookieValue)
    IN  IF Len(cookieTokens) = 0 THEN FALSE
        ELSE
        LET headerMatchesCookie ==
                \E i \in 1..Len(cookieTokens) : validateCSRFToken(headerToken, cookieTokens[i])
        IN  IF ~headerMatchesCookie THEN FALSE
            ELSE verifySignedTokenWithTTL(headerToken, secret, ttl, skew, clock)

----------------------------------------------------------------------------
(* Character-string helpers for header values *)

startsWith(s, p) == Len(s) >= Len(p) /\ SubSeq(s, 1, Len(p)) = p

endsWith(s, p) == Len(s) >= Len(p) /\ SubSeq(s, Len(s) - Len(p) + 1, Len(s)) = p

includes(s, p) == \E i \in 1..(Len(s) - Len(p) + 1) : SubSeq(s, i, i + Len(p) - 1) = p

UpperChars == "ABCDEFGHIJKLMNOPQRSTUVWXYZ"

LowerChars == "abcdefghijklmnopqrstuvwxyz"

lowerChar(c) ==
    IF \E i \in 1..Len(UpperChars) : SubSeq(UpperChars, i, i) = c
    THEN LET i == CHOOSE j \in 1..Len(UpperChars) : SubSeq(UpperChars, j, j) = c
         IN  SubSeq(LowerChars, i, i)
    ELSE c

RECURSIVE toLowerCase(_)
toLowerCase(s) ==
    IF Len(s) = 0 THEN ""
    ELSE lowerChar(SubSeq(s, 1, 1)) \o toLowerCase(SubSeq(s, 2, Len(s)))

\* new URL(u).origin for http(s) URLs with a lower-case host and no port;
\* "" stands for the TypeError that the caller catches
urlOrigin(u) ==
    LET scheme == IF startsWith(u, "https://") THEN "https://"
                  ELSE IF startsWith(u, "http://") THEN "http://" ELSE ""
        from == Len(scheme) + 1
        ends == {i \in from..Len(u) : SubSeq(u, i, i) \in {"/", "?", "#"}}
        stop == IF ends = {} THEN Len(u) + 1
                ELSE CHOOSE i \in ends : \A j \in ends : i <= j
    IN  IF scheme = "" \/ stop = from THEN "" ELSE SubSeq(u, 1, stop - 1)

----------------------------------------------------------------------------
(* Configuration *)

\* request.nextUrl.origin of the deployment
SelfOrigin == "https://app.example"

AllowedOrigin == "https://partner.example"

EvilOrigin == "https://evil.example"

\* CSRF_SECRET and a second secret string that decodes to another key
Secret == [b |-> <<1>>, alt |-> 0]

OtherSecret == [b |-> <<2>>, alt |-> 0]

DefaultMethods == {"POST", "PUT", "PATCH", "DELETE"}

\* the config object createCsrfProtect resolves from valid options
resolvedConfig(apiMethods, pageMethods) ==
    [ cookieName |-> "csrf-token",
      headerName |-> "x-csrf-token",
      methods |-> pageMethods,
      apiMethods |-> apiMethods,
      secret |-> Secret,
      ttlSeconds |-> ttlSeconds,
      allowedSkewSeconds |-> allowedSkewSeconds,
      allowedOrigins |-> {AllowedOrigin},
      tokenRotationGracePeriod |-> gracePeriod ]

----------------------------------------------------------------------------
(* ProtectionEngine *)

getCsrfTokenFromCookie(request) == request.cookie

getCsrfTokenFromHeader(request) == request.header

NoHeaders == {}

CsrfError(message, headers) ==
    [ok |-> FALSE, error |-> message, token |-> NULL, setCookie |-> NULL, headers |-> headers]

Returns(token, setCookie, headers) ==
    [ok |-> TRUE, error |-> "", token |-> token, setCookie |-> setCookie, headers |-> headers]

\* mutant: the minted token is returned but not set on the cookie
getOrCreateSignedToken_cookieNotSet(request, config, nonceBytes, clock) ==
    LET existing == getCsrfTokenFromCookie(request)
    IN  IF ~Falsy(existing)
           /\ verifySignedTokenWithTTL(existing, config.secret, config.ttlSeconds,
                                       config.allowedSkewSeconds, clock)
        THEN Returns(existing, NULL, NoHeaders)
        ELSE LET token == generateSignedToken(config.secret, nonceBytes, clock)
             IN  Returns(token, NULL, NoHeaders)

getOrCreateSignedToken(request, config, nonceBytes, clock) ==
    LET existing == getCsrfTokenFromCookie(request)
    IN  IF ~Falsy(existing)
           /\ verifySignedTokenWithTTL(existing, config.secret, config.ttlSeconds,
                                       config.allowedSkewSeconds, clock)
        THEN Returns(existing, NULL, NoHeaders)
        ELSE LET token == generateSignedToken(config.secret, nonceBytes, clock)
             IN  Returns(token, token, NoHeaders)

\* mutant: the presence check is left to the validation
tokenCheck_noPresenceCheck(request, config, clock) ==
    IF ~verifyTokenWithGracePeriod(getCsrfTokenFromCookie(request), getCsrfTokenFromHeader(request),
            config.secret, config.ttlSeconds, config.allowedSkewSeconds, clock)
    THEN "Invalid CSRF token"
    ELSE ""

\* mutant: the server remembers the last rotation and accepts only tokens of
\* the cookie that rotation wrote
tokenCheck_revokedByRotation(request, config, clock) ==
    LET cookieValue == getCsrfTokenFromCookie(request)
        headerToken == getCsrfTokenFromHeader(request)
    IN  IF Falsy(headerToken) \/ Falsy(cookieValue) THEN "CSRF token is required"
        ELSE IF nRot >= 1 /\ headerToken \notin {<<rot.cookie[i]>> : i \in 1..Len(rot.cookie)}
        THEN "Invalid CSRF token"
        ELSE IF ~verifyTokenWithGracePeriod(cookieValue, headerToken, config.secret,
                     config.ttlSeconds, config.allowedSkewSeconds, clock)
        THEN "Invalid CSRF token"
        ELSE ""

\* lines 541-562 and 645-674: presence check, then the grace-period-aware check
tokenCheck(request, config, clock) ==
    LET cookieValue == getCsrfTokenFromCookie(request)
        headerToken == getCsrfTokenFromHeader(request)
    IN  IF Falsy(headerToken) \/ Falsy(cookieValue) THEN "CSRF token is required"
        ELSE IF ~verifyTokenWithGracePeriod(cookieValue, headerToken, config.secret,
                     config.ttlSeconds, config.allowedSkewSeconds, clock)
        THEN "Invalid CSRF token"
        ELSE ""

\* mutant: the preflight answer leaves out Access-Control-Allow-Credentials
preflightHeaders_noCredentials(config, allowedOrigin) ==
    { <<"Access-Control-Allow-Origin", allowedOrigin>>,
      <<"Access-Control-Allow-Methods", "GET, POST, PUT, PATCH, DELETE, OPTIONS">>,
      <<"Access-Control-Allow-Headers", config.headerName \o ", Content-Type, Authorization">>,
      <<"Access-Control-Max-Age", "86400">> }

\* lines 470-474
preflightHeaders(config, allowedOrigin) ==
    { <<"Access-Control-Allow-Origin", allowedOrigin>>,
      <<"Access-Control-Allow-Methods", "GET, POST, PUT, PATCH, DELETE, OPTIONS">>,
      <<"Access-Control-Allow-Headers", config.headerName \o ", Content-Type, Authorization">>,
      <<"Access-Control-Allow-Credentials", "true">>,
      <<"Access-Control-Max-Age", "86400">> }

corsHeaders(allowedOrigin) ==
    { <<"Access-Control-Allow-Origin", allowedOrigin>>,
      <<"Access-Control-Allow-Credentials", "true">>,
      <<"Vary", "Origin">> }

\* mutant: the Accept header is checked before the Sec-Fetch-* headers
fetchMetadataError_acceptFirst(request) ==
    IF includes(toLowerCase(request.accept), "text/html")
    THEN "Invalid accept header for API"
    ELSE IF request.secFetchSite \notin {"same-origin", "same-site", ""}
    THEN "Invalid Sec-Fetch-Site header"
    ELSE IF request.secFetchMode \notin {"cors", "navigate", ""}
    THEN "Invalid Sec-Fetch-Mode header"
    ELSE IF request.secFetchDest \notin {"empty", "document", ""}
    THEN "Invalid Sec-Fetch-Dest header"
    ELSE ""

\* mutant: a missing Sec-Fetch-Site header is treated as invalid
fetchMetadataError_siteRequired(request) ==
    IF request.secFetchSite \notin {"same-origin", "same-site"}
    THEN "Invalid Sec-Fetch-Site header"
    ELSE IF request.secFetchMode \notin {"cors", "navigate", ""}
    THEN "Invalid Sec-Fetch-Mode header"
    ELSE IF request.secFetchDest \notin {"empty", "document", ""}
    THEN "Invalid Sec-Fetch-Dest header"
    ELSE IF includes(toLowerCase(request.accept), "text/html")
    THEN "Invalid accept header for API"
    ELSE ""

\* lines 502-523: the error of the first failing Fetch-Metadata / Accept check
fetchMetadataError(request) ==
    IF request.secFetchSite \notin {"same-origin", "same-site", ""}
    THEN "Invalid Sec-Fetch-Site header"
    ELSE IF request.secFetchMode \notin {"cors", "navigate", ""}
    THEN "Invalid Sec-Fetch-Mode header"
    ELSE IF request.secFetchDest \notin {"empty", "document", ""}
    THEN "Invalid Sec-Fetch-Dest header"
    ELSE IF includes(toLowerCase(request.accept), "text/html")
    THEN "Invalid accept header for API"
    ELSE ""

\* lines 439-448
candidateOrigin(request) ==
    IF request.origin # "" THEN request.origin
    ELSE IF request.referer # "" THEN urlOrigin(request.referer)
    ELSE ""

\* mutant: only the Origin header can name an allowed origin
isAllowedOrigin_originHeaderOnly(request, config) ==
    request.origin # "" /\ request.origin \in config.allowedOrigins

\* line 453
isAllowedOrigin(request, config) ==
    candidateOrigin(request) # "" /\ candidateOrigin(request) \in config.allowedOrigins

\* mutant: a request without an Origin header is never cross-origin
isCrossOrigin_originOnly(request) ==
    request.origin # "" /\ request.origin # SelfOrigin

\* lines 437-438 and 454
isCrossOrigin(request) ==
    LET sameOrigin == request.origin = SelfOrigin
        refererOk == startsWith(request.referer, SelfOrigin)
    IN  ~sameOrigin /\ ~refererOk

\* branch 1 of csrfProtect: /_next and /api/ paths
apiBranch(request, config, clock) ==
    IF request.method = "OPTIONS"
    THEN IF isCrossOrigin(request) /\ ~isAllowedOrigin(request, config)
         THEN CsrfError("Origin not allowed for CORS preflight", NoHeaders)
         ELSE Returns(EmptyStr, NULL,
                      IF isAllowedOrigin(request, config)
                      THEN preflightHeaders(config, candidateOrigin(request))
                      ELSE NoHeaders)
    ELSE IF isCrossOrigin(request) /\ ~isAllowedOrigin(request, config)
    THEN CsrfError("Cross-origin request blocked", NoHeaders)
    ELSE
    LET headers == IF isAllowedOrigin(request, config)
                   THEN corsHeaders(candidateOrigin(request)) ELSE NoHeaders
        fmError == IF ~isAllowedOrigin(request, config)
                   THEN fetchMetadataError(request) ELSE ""
    IN  IF fmError # "" THEN CsrfError(fmError, headers)
        ELSE IF request.method \in config.apiMethods
        THEN LET tokError == tokenCheck(request, config, clock)
                 cookieTokens == parseMultipleTokens(getCsrfTokenFromCookie(request))
             IN  IF tokError # "" THEN CsrfError(tokError, headers)
                 ELSE Returns(IF Len(cookieTokens) > 0 THEN cookieTokens[1] ELSE EmptyStr,
                              NULL, headers)
        ELSE LET existing == getCsrfTokenFromCookie(request)
             IN  Returns(IF existing = NULL THEN EmptyStr ELSE existing, NULL, headers)

\* mutant: the origin of the request is not looked at
safePageBranch_anyOrigin(request, config, nonceBytes, clock) ==
    IF includes(request.accept, "text/html") /\ request.secFetchDest = "document"
    THEN getOrCreateSignedToken(request, config, nonceBytes, clock)
    ELSE IF includes(request.accept, "*/*")
            /\ request.secFetchDest = "empty" /\ Len(request.nextUrl) > 0
    THEN getOrCreateSignedToken(request, config, nonceBytes, clock)
    ELSE Returns(EmptyStr, NULL, NoHeaders)

\* branch 2 of csrfProtect: GET/HEAD/OPTIONS on the other paths
safePageBranch(request, config, nonceBytes, clock) ==
    LET sameOrigin == request.origin = SelfOrigin
        noOrigin == request.origin = ""
    IN  IF (sameOrigin \/ noOrigin) /\ includes(request.accept, "text/html")
           /\ request.secFetchDest = "document"
        THEN getOrCreateSignedToken(request, config, nonceBytes, clock)
        ELSE IF (sameOrigin \/ noOrigin) /\ includes(request.accept, "*/*")
                /\ request.secFetchDest = "empty" /\ Len(request.nextUrl) > 0
        THEN getOrCreateSignedToken(request, config, nonceBytes, clock)
        ELSE Returns(EmptyStr, NULL, NoHeaders)

\* mutant: every accepted request gets a newly minted token
unsafePageBranch_alwaysMints(request, config, nonceBytes, clock) ==
    LET tokError == IF request.method \in config.methods
                    THEN tokenCheck(request, config, clock) ELSE ""
        token == generateSignedToken(config.secret, nonceBytes, clock)
    IN  IF tokError # "" THEN CsrfError(tokError, NoHeaders)
        ELSE Returns(token, token, NoHeaders)

\* mutant: the existing cookie is written again on every accepted request
unsafePageBranch_cookieRewritten(request, config, nonceBytes, clock) ==
    LET tokError == IF request.method \in config.methods
                    THEN tokenCheck(request, config, clock) ELSE ""
        existing == getCsrfTokenFromCookie(request)
    IN  IF tokError # "" THEN CsrfError(tokError, NoHeaders)
        ELSE IF ~Falsy(existing) THEN Returns(existing, existing, NoHeaders)
        ELSE getOrCreateSignedToken(request, config, nonceBytes, clock)

\* branch 3 of csrfProtect: the other methods on the other paths
unsafePageBranch(request, config, nonceBytes, clock) ==
    LET tokError == IF request.method \in config.methods
                    THEN tokenCheck(request, config, clock) ELSE ""
        existing == getCsrfTokenFromCookie(request)
    IN  IF tokError # "" THEN CsrfError(tokError, NoHeaders)
        ELSE IF ~Falsy(existing) THEN Returns(existing, NULL, NoHeaders)
        ELSE getOrCreateSignedToken(request, config, nonceBytes, clock)

isApiPath(pathname) == startsWith(pathname, "/_next") \/ startsWith(pathname, "/api/")

csrfProtect(request, config, nonceBytes, clock) ==
    IF isApiPath(request.pathname)
    THEN apiBranch(request, config, clock)
    ELSE IF request.method \in {"GET", "HEAD", "OPTIONS"}
    THEN safePageBranch(request, config, nonceBytes, clock)
    ELSE unsafePageBranch(request, config, nonceBytes, clock)

----------------------------------------------------------------------------
(* RotationManager *)

\* the cookie value and the returned/header token of rotateAndSetCsrfToken
\* mutant: the new token is put after the old tokens
rotateAndSetCsrfToken_newTokenLast(secret, oldToken, grace, nonceBytes, clock) ==
    LET newToken == signedTokenAt(secret, nonceBytes, clock)
        oldTokens == parseMultipleTokens(oldToken)
        validOldTokens == cleanupExpiredTokens(oldTokens, clock, grace)
        allTokens == validOldTokens \o <<newToken>>
        combinedTokenValue == combineTokens(allTokens)
    IN  [cookie |-> combinedTokenValue, header |-> newToken, token |-> newToken]

\* mutant: the response header is given the combined cookie value
rotateAndSetCsrfToken_headerCombined(secret, oldToken, grace, nonceBytes, clock) ==
    LET newToken == signedTokenAt(secret, nonceBytes, clock)
        oldTokens == parseMultipleTokens(oldToken)
        validOldTokens == cleanupExpiredTokens(oldTokens, clock, grace)
        allTokens == <<newToken>> \o validOldTokens
        combinedTokenValue == combineTokens(allTokens)
    IN  [cookie |-> combinedTokenValue, header |-> combinedTokenValue, token |-> newToken]

rotateAndSetCsrfToken(secret, oldToken, grace, nonceBytes, clock) ==
    LET newToken == signedTokenAt(secret, nonceBytes, clock)
        oldTokens == parseMultipleTokens(oldToken)
        validOldTokens == cleanupExpiredTokens(oldTokens, clock, grace)
        allTokens == <<newToken>> \o validOldTokens
        combinedTokenValue == combineTokens(allTokens)
    IN  [cookie |-> combinedTokenValue, header |-> newToken, token |-> newToken]

----------------------------------------------------------------------------
(* Requests *)

Shape(origin, referer, site, mode, dest, accept, nextUrl) ==
    [origin |-> origin, referer |-> referer, secFetchSite |-> site, secFetchMode |-> mode,
     secFetchDest |-> dest, accept |-> accept, nextUrl |-> nextUrl]

Request(method, pathname, h, cookie, header) ==
    [method |-> method, pathname |-> pathname, origin |-> h.origin, referer |-> h.referer,
     secFetchSite |-> h.secFetchSite, secFetchMode |-> h.secFetchMode,
     secFetchDest |-> h.secFetchDest, accept |-> h.accept, nextUrl |-> h.nextUrl,
     cookie |-> cookie, header |-> header]

\* no Origin, no Referer, no Fetch-Metadata, no Accept
BareShape == Shape("", "", "", "", "", "", "")

\* fetch() from a page of the application
SameOriginFetch ==
    Shape(SelfOrigin, SelfOrigin \o "/otp/send", "same-origin", "cors", "empty", "application/json", "")

\* a same-origin GET fetch: browsers send the Referer but no Origin
RefererOnlyFetch ==
    Shape("", SelfOrigin \o "/otp/verify", "same-origin", "cors", "empty", "*/*", "/otp/verify")

CrossSiteFetch ==
    Shape(EvilOrigin, EvilOrigin \o "/", "cross-site", "cors", "empty", "*/*", "")

AllowedOriginFetch ==
    Shape(AllowedOrigin, AllowedOrigin \o "/app", "cross-site", "cors", "empty", "application/json", "")

DocumentNavigation ==
    Shape("", "", "none", "navigate", "document", "text/html,application/xhtml+xml", "")

\* crypto.getRandomValues never repeats: the n-th token minted gets nonce <<n>>
freshNonce(n) == <<n + 1>>

NoReq == Request("", "", BareShape, NULL, NULL)

NoRes == [ok |-> FALSE, error |-> "", token |-> NULL, setCookie |-> NULL, headers |-> {}]

NoRot == [at |-> 0, old |-> NULL, token |-> NULL, cookie |-> NULL, header |-> NULL]

NoVin == [token |-> NULL, mintedAt |-> 0, mintSecret |-> Secret, by |-> "", tamper |-> "",
          secret |-> Secret]

\* a NextResponse: which object it is, its status, its string headers, the
\* value of its CSRF token header, the name and value of the cookie that
\* handleCsrfInMiddleware has set on it, its body
Response(which, status, headers, body) ==
    [which |-> which, status |-> status, headers |-> headers, csrfHeader |-> NULL,
     cookieName |-> "", cookie |-> NULL, body |-> body]

NoResponse == Response("", 0, {}, "")

\* nothing returned or thrown yet
NoOut == [thrown |-> FALSE, error |-> "", response |-> NoResponse]

\* no call of handleCsrfInMiddleware yet
NoMw == [fn |-> "engine", onError |-> FALSE, cookieName |-> "csrf-token", out |-> NoOut]

\* no call of createCsrfProtect yet
NoBuild ==
    [ called |-> FALSE,
      options |-> [secret |-> "", allowedOrigins |-> [kind |-> "none", list |-> <<>>, text |-> ""],
                   sameSite |-> "unset", secure |-> "unset"],
      nodeEnv |-> "development", hasBuffer |-> TRUE,
      made |-> [threw |-> TRUE, message |-> "", config |-> NULL, cookie |-> NULL] ]

\* no request kept by a client yet
NoHeld == NoReq

\* the '|'-separated non-empty tokens of a cookie value, as a set
TokensOf(cookieValue) ==
    LET ts == parseMultipleTokens(cookieValue) IN {ts[i] : i \in 1..Len(ts)}

----------------------------------------------------------------------------
(* The engine in use: a browser holding the cookie, the clock, rotations *)

Init ==
    /\ now = 1
    /\ jar = NULL
    /\ cfg = resolvedConfig(DefaultMethods, DefaultMethods)
    /\ op = "init"
    /\ req = NoReq
    /\ res = NoRes
    /\ rot = NoRot
    /\ prevRot = NoRot
    /\ nRot = 0
    /\ nMint = 0
    /\ vin = NoVin
    /\ vout = FALSE
    /\ mw = NoMw
    /\ build = NoBuild
    /\ held = NoHeld

\* Date.now() advances; req and res hold the call of the current step only
Tick ==
    /\ now < MaxNow
    /\ now' = now + 1
    /\ op' = "tick"
    /\ req' = NoReq
    /\ res' = NoRes
    /\ UNCHANGED <<jar, cfg, rot, prevRot, nRot, nMint, vin, vout, mw, build, held>>

\* the browser navigates to a page of the application; it stores the cookie
\* the response sets
Navigate ==
    /\ req' = Request("GET", "/otp/send", DocumentNavigation, jar, NULL)
    /\ res' = csrfProtect(req', cfg, freshNonce(nMint), now)
    /\ res'.setCookie # NULL => nMint < MaxMint
    /\ jar' = IF res'.ok /\ res'.setCookie # NULL THEN res'.setCookie ELSE jar
    /\ nMint' = IF res'.setCookie # NULL THEN nMint + 1 ELSE nMint
    /\ op' = "request"
    /\ UNCHANGED <<now, cfg, rot, prevRot, nRot, vin, vout, mw, build, held>>

\* an auth route rotates the token, passing the request's cookie as oldToken
Rotate ==
    /\ nRot < MaxRot
    /\ nMint < MaxMint
    /\ LET out == rotateAndSetCsrfToken(Secret, jar, gracePeriod, freshNonce(nMint), now)
       IN  /\ prevRot' = rot
           /\ rot' = [at |-> now, old |-> jar, token |-> out.token, cookie |-> out.cookie,
                    header |-> out.header]
           /\ jar' = out.cookie
    /\ nRot' = nRot + 1
    /\ nMint' = nMint + 1
    /\ op' = "rotate"
    /\ req' = NoReq
    /\ res' = NoRes
    /\ UNCHANGED <<now, cfg, vin, vout, mw, build, held>>

SubmitShapes == {SameOriginFetch, BareShape}

\* a state-changing request with the cookie of the jar and, as header token,
\* any token the page may still hold
Submit ==
    /\ \E h \in SubmitShapes, pathname \in {"/api/x", "/otp/send"},
          header \in {NULL} \cup TokensOf(jar) \cup TokensOf(rot.old) :
        req' = Request("POST", pathname, h, jar, header)
    /\ res' = csrfProtect(req', cfg, freshNonce(nMint), now)
    /\ res'.setCookie # NULL => nMint < MaxMint
    /\ jar' = IF res'.ok /\ res'.setCookie # NULL THEN res'.setCookie ELSE jar
    /\ nMint' = IF res'.setCookie # NULL THEN nMint + 1 ELSE nMint
    /\ op' = "request"
    /\ UNCHANGED <<now, cfg, rot, prevRot, nRot, vin, vout, mw, build, held>>

Next == Tick \/ Navigate \/ Rotate \/ Submit

Spec == Init /\ [][Next]_vars

----------------------------------------------------------------------------
(* The engine in use, with a client that keeps an accepted request and sends
   it again later *)

\* a client keeps a copy of a token-bearing request that was just accepted
Capture ==
    /\ held = NoHeld
    /\ op = "request"
    /\ res.ok
    /\ req.header # NULL
    /\ held' = req
    /\ op' = "capture"
    /\ UNCHANGED <<now, jar, cfg, req, res, rot, prevRot, nRot, nMint, vin, vout, mw, build>>

\* the kept request arrives again: same method, path, headers, cookie value
\* and header token, whatever the browser's cookie is by now
Replay ==
    /\ held # NoHeld
    /\ req' = held
    /\ res' = csrfProtect(req', cfg, freshNonce(nMint), now)
    /\ res'.setCookie # NULL => nMint < MaxMint
    /\ jar' = IF res'.ok /\ res'.setCookie # NULL THEN res'.setCookie ELSE jar
    /\ nMint' = IF res'.setCookie # NULL THEN nMint + 1 ELSE nMint
    /\ op' = "replay"
    /\ UNCHANGED <<now, cfg, rot, prevRot, nRot, vin, vout, mw, build, held>>

NextReplay == Tick \/ Navigate \/ Rotate \/ Submit \/ Capture \/ Replay

SpecReplay == Init /\ [][NextReplay]_vars

----------------------------------------------------------------------------
(* The Verifier on minted, tampered and forged tokens *)

\* a second spelling of CSRF_SECRET that base64ToBytes decodes to the same key
RespelledSecret == [b |-> Secret.b, alt |-> 1]

Secrets == {Secret, RespelledSecret, OtherSecret}

\* bit k of a byte inverted
flipBit(byte, k) ==
    IF (byte \div (2 ^ k)) % 2 = 1 THEN byte - 2 ^ k ELSE byte + 2 ^ k

\* segment i of a one-part token replaced
withSegment(token, i, seg) == << [token[1] EXCEPT ![i] = seg] >>

SigBit == [what : {"signature"}, byte : 1..4, bit : 0..7]

TamperKinds == SigBit \cup [what : {"nonce", "timestamp+", "timestamp-", "spelling"}, byte : {0}, bit : {0}]

tampered(token, kind) ==
    LET segs == token[1]
        sig == fromBase64Url(segs[3])
        ts == bigEndianBytesToU32(fromBase64Url(segs[2]))
    IN  CASE kind.what = "signature" ->
               withSegment(token, 3,
                   toBase64Url([sig EXCEPT ![kind.byte] = flipBit(sig[kind.byte], kind.bit)]))
          [] kind.what = "nonce" ->
               withSegment(token, 1, toBase64Url(<<0>>))
          [] kind.what = "timestamp+" ->
               withSegment(token, 2, toBase64Url(u32ToBigEndianBytes(ts + 1)))
          [] kind.what = "timestamp-" ->
               withSegment(token, 2, toBase64Url(u32ToBigEndianBytes(ts - 1)))
          [] OTHER ->
               withSegment(token, 3, [b |-> sig, alt |-> 1])

\* timestamp segments a client can present: every instant around the clock's
\* range, and byte strings that are not 4 bytes long
TsInputs ==
    {u32ToBigEndianBytes(t) : t \in 0..(MaxNow + allowedSkewSeconds + 1)}
        \cup {<<>>, <<0, 0, 1>>, <<0, 0, 0, 0, 1>>}

\* the signature segment is the HMAC of the presented nonce and timestamp
\* bytes under signer, or that HMAC cut short
forgedWith(ts) ==
    { << <<toBase64Url(<<1>>), toBase64Url(ts), toBase64Url(sig)>> \o extra >> :
        sig \in { hmacSha256(<<1>> \o ts, base64ToBytes(Secret)),
                  hmacSha256(<<1>> \o ts, base64ToBytes(OtherSecret)),
                  SubSeq(hmacSha256(<<1>> \o ts, base64ToBytes(Secret)), 1, 3) },
        extra \in {<<>>, <<EmptySeg>>} }
      \cup
    { << <<toBase64Url(ts), toBase64Url(hmacSha256(ts, base64ToBytes(Secret)))>> >> }

ForgedTokens == UNION {forgedWith(ts) : ts \in TsInputs}

\* generateSignedToken or rotateAndSetCsrfToken mints a token under secret s
Mint ==
    /\ nMint < MaxMint
    /\ \E s \in Secrets, by \in {"generateSignedToken", "rotateAndSetCsrfToken"} :
        vin' = [ token |-> IF by = "generateSignedToken"
                           THEN generateSignedToken(s, freshNonce(nMint), now)
                           ELSE rotateAndSetCsrfToken(s, NULL, gracePeriod, freshNonce(nMint), now).token,
                 mintedAt |-> now, mintSecret |-> s, by |-> by, tamper |-> "none", secret |-> s ]
    /\ nMint' = nMint + 1
    /\ op' = "mint"
    /\ UNCHANGED <<now, jar, cfg, req, res, rot, prevRot, nRot, vout, mw, build, held>>

\* the client alters the minted token before presenting it
Tamper ==
    /\ vin.tamper = "none"
    /\ \E kind \in TamperKinds :
        vin' = [vin EXCEPT !.token = tampered(vin.token, kind), !.tamper = kind.what]
    /\ op' = "tamper"
    /\ UNCHANGED <<now, jar, cfg, req, res, rot, prevRot, nRot, nMint, vout, mw, build, held>>

\* the client presents a token it built itself
Forge ==
    /\ \E t \in ForgedTokens :
        vin' = [ token |-> t, mintedAt |-> 0, mintSecret |-> Secret, by |-> "client",
                 tamper |-> "forged", secret |-> Secret ]
    /\ op' = "forge"
    /\ UNCHANGED <<now, jar, cfg, req, res, rot, prevRot, nRot, nMint, vout, mw, build, held>>

Verify ==
    /\ vin.token # NULL
    /\ \E s \in Secrets :
        /\ vin' = [vin EXCEPT !.secret = s]
        /\ vout' = verifySignedTokenWithTTL(vin.token, s, ttlSeconds, allowedSkewSeconds, now)
    /\ op' = "verify"
    /\ UNCHANGED <<now, jar, cfg, req, res, rot, prevRot, nRot, nMint, mw, build, held>>

NextVerify == Tick \/ Mint \/ Tamper \/ Forge \/ Verify

SpecVerify == Init /\ [][NextVerify]_vars

----------------------------------------------------------------------------
(* csrfProtect probed with arbitrary cookies and header tokens, under every
   configuration of the validated methods *)

AllMethods == {"GET", "HEAD", "OPTIONS", "POST", "PUT", "PATCH", "DELETE"}

\* createCsrfProtect with the default methods, with every method validated,
\* and with POST only
Configs ==
    { resolvedConfig(DefaultMethods, DefaultMethods),
      resolvedConfig(AllMethods, AllMethods),
      resolvedConfig({"POST"}, {"POST"}) }

\* a cookie written by an issuance at time t
issuedCookie(t) == signedTokenAt(Secret, <<1>>, t)

\* a cookie written by a rotation at time t + 1 of the cookie issued at t
rotatedCookie(t) == rotateAndSetCsrfToken(Secret, issuedCookie(t), gracePeriod, <<2>>, t + 1).cookie

\* a correctly signed token that was never put into a cookie
StrangerToken == signedTokenAt(Secret, <<3>>, 2)

\* client-built tokens with time stamps 0 and 2 and with a 3-byte time stamp
ForgedCookies ==
    UNION {forgedWith(ts) : ts \in {u32ToBigEndianBytes(0), u32ToBigEndianBytes(2), <<0, 0, 1>>}}

\* the Cookie header is under the client's control; the last value puts a
\* token signed under another secret in front of an issued token
CookieInputs ==
    {NULL, EmptyStr, issuedCookie(1), issuedCookie(3), rotatedCookie(1), rotatedCookie(2),
     <<EmptyTok>> \o issuedCookie(2),
     signedTokenAt(OtherSecret, <<4>>, 2) \o issuedCookie(2)} \cup ForgedCookies

\* the same token with the last segment in another base64url spelling
respelled(token) ==
    << [token[1] EXCEPT ![Len(token[1])] = [b |-> token[1][Len(token[1])].b, alt |-> 1]] >>

HeaderInputs(cookie) ==
    {NULL, EmptyStr, cookie, StrangerToken} \cup TokensOf(cookie)
        \cup {respelled(t) : t \in TokensOf(cookie)}

ProbeMethods == {"GET", "HEAD", "OPTIONS", "POST", "DELETE"}

TokenShapes == {SameOriginFetch, BareShape, AllowedOriginFetch, DocumentNavigation}

\* the requests a client can build from these inputs
TokenRequests ==
    UNION { { Request(method, pathname, h, cookie, header) :
                method \in ProbeMethods, pathname \in {"/api/x", "/otp/send"},
                h \in TokenShapes, header \in HeaderInputs(cookie) } :
            cookie \in CookieInputs }

\* a request arrives at some instant under some configuration
InitToken ==
    /\ now \in 1..MaxNow
    /\ cfg \in Configs
    /\ req \in TokenRequests
    /\ jar = NULL
    /\ op = "init"
    /\ res = NoRes
    /\ rot = NoRot
    /\ prevRot = NoRot
    /\ nRot = 0
    /\ nMint = 0
    /\ vin = NoVin
    /\ vout = FALSE
    /\ mw = NoMw
    /\ build = NoBuild
    /\ held = NoHeld

\* the call of csrfProtect with the request that arrived
ProbeToken ==
    /\ op = "init"
    /\ res' = csrfProtect(req, cfg, freshNonce(0), now)
    /\ op' = "request"
    /\ UNCHANGED <<now, jar, cfg, req, rot, prevRot, nRot, nMint, vin, vout, mw, build, held>>

NextToken == ProbeToken

SpecToken == InitToken /\ [][NextToken]_vars

----------------------------------------------------------------------------
(* csrfProtect on API/internal paths probed with every combination of the
   Origin, Referer, Fetch-Metadata and Accept headers *)

\* the instant of the calls: the cookies below are fresh at it
OriginClock == 2

OriginInputs == {"", SelfOrigin, EvilOrigin, AllowedOrigin}

\* the fourth value has the application's origin as a proper prefix
RefererInputs ==
    {"", SelfOrigin \o "/otp/send", EvilOrigin \o "/", AllowedOrigin \o "/app",
     SelfOrigin \o ".evil.example/x"}

SiteInputs == {"", "same-origin", "cross-site"}

ModeInputs == {"", "cors", "no-cors"}

DestInputs == {"", "empty", "image"}

AcceptInputs == {"", "application/json", "TEXT/HTML"}

\* cookie and header token of the request: none, a matching valid pair, the
\* cookie alone, the older token of a rotated cookie, a token not in the cookie
TokenPairs ==
    { <<NULL, NULL>>,
      <<issuedCookie(1), issuedCookie(1)>>,
      <<issuedCookie(1), NULL>>,
      <<rotatedCookie(1), issuedCookie(1)>>,
      <<issuedCookie(1), StrangerToken>> }

ApiRequests ==
    { Request(method, pathname, Shape(origin, referer, site, mode, dest, accept, ""),
              pair[1], pair[2]) :
        method \in {"GET", "POST", "OPTIONS"}, pathname \in {"/api/x", "/_next/data"},
        origin \in OriginInputs, referer \in RefererInputs, site \in SiteInputs,
        mode \in ModeInputs, dest \in DestInputs, accept \in AcceptInputs,
        pair \in TokenPairs }

InitOrigin ==
    /\ now = OriginClock
    /\ cfg \in Configs
    /\ req \in ApiRequests
    /\ jar = NULL
    /\ op = "init"
    /\ res = NoRes
    /\ rot = NoRot
    /\ prevRot = NoRot
    /\ nRot = 0
    /\ nMint = 0
    /\ vin = NoVin
    /\ vout = FALSE
    /\ mw = NoMw
    /\ build = NoBuild
    /\ held = NoHeld

\* the call of csrfProtect with the request that arrived
ProbeOrigin ==
    /\ op = "init"
    /\ res' = csrfProtect(req, cfg, freshNonce(0), now)
    /\ op' = "request"
    /\ UNCHANGED <<now, jar, cfg, req, rot, prevRot, nRot, nMint, vin, vout, mw, build, held>>

NextOrigin == ProbeOrigin

SpecOrigin == InitOrigin /\ [][NextOrigin]_vars

----------------------------------------------------------------------------
(* csrfProtect on page paths probed with safe-method requests: every
   combination of the headers the issuance branch reads, and cookies that are
   absent, fresh, expired, rotated or signed under another secret *)

PageAcceptInputs ==
    {"", "text/html,application/xhtml+xml", "*/*", "application/json", "TEXT/HTML"}

PageDestInputs == {"", "document", "empty", "image"}

NextUrlInputs == {"", "/otp/verify"}

\* cookies that an issuance or a rotation of this engine has written
WrittenCookies == {issuedCookie(1), issuedCookie(3), rotatedCookie(1), rotatedCookie(2)}

PageCookies ==
    {NULL, EmptyStr, signedTokenAt(OtherSecret, <<1>>, 2)} \cup WrittenCookies

PageRequests ==
    { Request(method, pathname, Shape(origin, "", "", "", dest, accept, nextUrl), cookie, NULL) :
        method \in {"GET", "HEAD", "OPTIONS"}, pathname \in {"/otp/send", "/"},
        origin \in OriginInputs, dest \in PageDestInputs, accept \in PageAcceptInputs,
        nextUrl \in NextUrlInputs, cookie \in PageCookies }

InitPage ==
    /\ now \in 1..MaxNow
    /\ cfg \in Configs
    /\ req \in PageRequests
    /\ jar = NULL
    /\ op = "init"
    /\ res = NoRes
    /\ rot = NoRot
    /\ prevRot = NoRot
    /\ nRot = 0
    /\ nMint = 0
    /\ vin = NoVin
    /\ vout = FALSE
    /\ mw = NoMw
    /\ build = NoBuild
    /\ held = NoHeld

\* the call of csrfProtect with the request that arrived; a token it mints
\* gets a nonce no cookie of the request holds
ProbePage ==
    /\ op = "init"
    /\ res' = csrfProtect(req, cfg, freshNonce(MaxMint), now)
    /\ op' = "request"
    /\ UNCHANGED <<now, jar, cfg, req, rot, prevRot, nRot, nMint, vin, vout, mw, build, held>>

NextPage == ProbePage

SpecPage == InitPage /\ [][NextPage]_vars

----------------------------------------------------------------------------
(* The middleware wrapper: handleCsrfProtection and handleCsrfInMiddleware *)

\* the response the proxy hands to handleCsrfInMiddleware, with a header it
\* has set on it before
InProgressResponse == Response("in-progress", 200, {<<"Cache-Control", "no-store">>}, "")

\* NextResponse.json({ error: "Forbidden" }, { status: 403 })
ForbiddenResponse == Response("json", 403, {<<"content-type", "application/json">>}, "Forbidden")

\* the caller's handler: new NextResponse(err.message, { status: 403 })
onErrorResponse(message) == Response("onError", 403, {}, message)

\* what calling the csrfProtect function did: it returned, threw a CsrfError,
\* or (a function supplied by the caller) threw another error
ProtectOutcome(fn, result) ==
    [ thrown |-> IF fn = "throwing" THEN "Error" ELSE IF result.ok THEN "none" ELSE "CsrfError",
      result |-> result ]

\* lines 806-815: csrfProtect runs on a temporary response, of which only the
\* cookie named cookieName is read back
handleCsrfProtection(outcome, config, cookieName) ==
    [ token |-> outcome.result.token,
      cookieValue |-> IF config.cookieName = cookieName THEN outcome.result.setCookie ELSE NULL ]

\* mutant: the caller's onError handler is not consulted
handleCsrfInMiddleware_onErrorIgnored(request, response, outcome, config, cookieName, onError) ==
    IF outcome.thrown = "CsrfError"
    THEN [thrown |-> FALSE, error |-> "", response |-> ForbiddenResponse]
    ELSE IF outcome.thrown = "Error"
    THEN [thrown |-> TRUE, error |-> "Error", response |-> NoResponse]
    ELSE
    LET handled == handleCsrfProtection(outcome, config, cookieName)
        withHeader ==
            IF ~Falsy(handled.token) /\ includes(request.accept, "text/html")
               /\ request.secFetchDest = "document"
            THEN [response EXCEPT !.csrfHeader = handled.token] ELSE response
        withCookie ==
            IF ~Falsy(handled.cookieValue)
            THEN [withHeader EXCEPT !.cookieName = cookieName, !.cookie = handled.cookieValue]
            ELSE withHeader
    IN  [thrown |-> FALSE, error |-> "", response |-> withCookie]

\* lines 834-900
handleCsrfInMiddleware(request, response, outcome, config, cookieName, onError) ==
    IF outcome.thrown = "CsrfError"
    THEN [thrown |-> FALSE, error |-> "",
          response |-> IF onError THEN onErrorResponse(outcome.result.error)
                       ELSE ForbiddenResponse]
    ELSE IF outcome.thrown = "Error"
    THEN [thrown |-> TRUE, error |-> "Error", response |-> NoResponse]
    ELSE
    LET handled == handleCsrfProtection(outcome, config, cookieName)
        withHeader ==
            IF ~Falsy(handled.token) /\ includes(request.accept, "text/html")
               /\ request.secFetchDest = "document"
            THEN [response EXCEPT !.csrfHeader = handled.token] ELSE response
        withCookie ==
            IF ~Falsy(handled.cookieValue)
            THEN [withHeader EXCEPT !.cookieName = cookieName, !.cookie = handled.cookieValue]
            ELSE withHeader
    IN  [thrown |-> FALSE, error |-> "", response |-> withCookie]

\* a same-origin fetch that names the allowed origin only in its Referer
AllowedRefererFetch ==
    Shape("", AllowedOrigin \o "/app", "cross-site", "cors", "empty", "application/json", "")

MiddlewareShapes ==
    {BareShape, SameOriginFetch, CrossSiteFetch, AllowedOriginFetch, AllowedRefererFetch,
     DocumentNavigation}

MiddlewareRequests ==
    { Request(method, pathname, h, pair[1], pair[2]) :
        method \in {"GET", "POST", "OPTIONS"}, pathname \in {"/api/x", "/otp/send"},
        h \in MiddlewareShapes, pair \in TokenPairs }

\* the default cookie name and a name the application chooses
CookieNames == {"csrf-token", "__Host-csrf"}

\* createCsrfProtect with either cookie name
MiddlewareConfigs == {[c EXCEPT !.cookieName = name] : c \in Configs, name \in CookieNames}

\* a request reaches the proxy, which was set up with or without an onError
\* handler, with the engine or with a function that throws an Error, and
\* with the default cookieName or the chosen one
InitMiddleware ==
    /\ now = OriginClock
    /\ cfg \in MiddlewareConfigs
    /\ req \in MiddlewareRequests
    /\ mw \in [fn : {"engine", "throwing"}, onError : BOOLEAN, cookieName : CookieNames,
               out : {NoOut}]
    /\ jar = NULL
    /\ op = "init"
    /\ res = NoRes
    /\ rot = NoRot
    /\ prevRot = NoRot
    /\ nRot = 0
    /\ nMint = 0
    /\ vin = NoVin
    /\ vout = FALSE
    /\ build = NoBuild
    /\ held = NoHeld

\* handleCsrfInMiddleware({ csrfProtect, request, response, cookieName, onError })
RunMiddleware ==
    /\ op = "init"
    /\ res' = IF mw.fn = "engine" THEN csrfProtect(req, cfg, freshNonce(MaxMint), now) ELSE NoRes
    /\ mw' = [mw EXCEPT !.out = handleCsrfInMiddleware(req, InProgressResponse,
                                   ProtectOutcome(mw.fn, res'), cfg, mw.cookieName, mw.onError)]
    /\ op' = "middleware"
    /\ UNCHANGED <<now, jar, cfg, req, rot, prevRot, nRot, nMint, vin, vout, build, held>>

NextMiddleware == RunMiddleware

SpecMiddleware == InitMiddleware /\ [][NextMiddleware]_vars

----------------------------------------------------------------------------
(* createCsrfProtect: the eager check of the options *)

Base64Alphabet == UpperChars \o LowerChars \o "0123456789+/"

\* atob(b64) throws: after up to two padding characters of a string whose
\* length is a multiple of 4 are dropped, a character is outside the
\* alphabet or the length is 1 modulo 4
atobThrows(b64) ==
    LET n == Len(b64)
        pad == IF n % 4 = 0 /\ n >= 2 /\ SubSeq(b64, n - 1, n) = "==" THEN 2
               ELSE IF n % 4 = 0 /\ n >= 1 /\ SubSeq(b64, n, n) = "=" THEN 1
               ELSE 0
        data == SubSeq(b64, 1, n - pad)
    IN  \/ Len(data) % 4 = 1
        \/ \E i \in 1..Len(data) : ~includes(Base64Alphabet, SubSeq(data, i, i))

\* lines 76-87: Buffer.from(b64, "base64") decodes what it can and never
\* throws; atob is used only where Buffer is not defined
base64ToBytesThrows(b64, hasBuffer) == ~hasBuffer /\ atobThrows(b64)

RECURSIVE trim(_)
trim(s) ==
    IF Len(s) > 0 /\ SubSeq(s, 1, 1) = " " THEN trim(SubSeq(s, 2, Len(s)))
    ELSE IF Len(s) > 0 /\ SubSeq(s, Len(s), Len(s)) = " " THEN trim(SubSeq(s, 1, Len(s) - 1))
    ELSE s

\* s.split(",")
RECURSIVE splitComma(_)
splitComma(s) ==
    LET commas == {i \in 1..Len(s) : SubSeq(s, i, i) = ","}
    IN  IF commas = {} THEN <<s>>
        ELSE LET first == CHOOSE i \in commas : \A j \in commas : i <= j
             IN  <<SubSeq(s, 1, first - 1)>> \o splitComma(SubSeq(s, first + 1, Len(s)))

\* lines 822-827
parseAllowedOrigins(originsString) ==
    LET pieces == splitComma(originsString)
        trimmed == [i \in 1..Len(pieces) |-> trim(pieces[i])]
    IN  SelectSeq(trimmed, LAMBDA origin : Len(origin) > 0)

\* lines 364-370: the option is an array, a string or absent
allowedOriginsOf(input) ==
    IF input.kind = "array" THEN input.list
    ELSE IF input.kind = "string" THEN parseAllowedOrigins(input.text)
    ELSE <<>>

\* lines 373-383
originError(origin) ==
    IF ~startsWith(origin, "http://") /\ ~startsWith(origin, "https://")
    THEN "Origins must include protocol"
    ELSE IF endsWith(origin, "/") THEN "Origins should not include trailing slash"
    ELSE ""

\* the key bytes the engine signs with, in the byte range of this model: the
\* well-formed secret decodes to the key of Secret, any other text to what
\* Buffer.from makes of it, a different key
secretOf(text) ==
    IF text = "AAECAwQFBgcICQoLDA0ODxAREhMUFRYX" THEN Secret ELSE OtherSecret

Threw(message) == [threw |-> TRUE, message |-> message, config |-> NULL, cookie |-> NULL]

\* lines 338-415: the engine's configuration, or the Error thrown
createCsrfProtect(options, nodeEnv, hasBuffer) ==
    LET allowedOrigins == allowedOriginsOf(options.allowedOrigins)
        bad == {i \in 1..Len(allowedOrigins) : originError(allowedOrigins[i]) # ""}
        isProduction == nodeEnv = "production"
        cookie == [ sameSite |-> IF options.sameSite = "unset" THEN "strict" ELSE options.sameSite,
                    secure |-> IF options.secure = "unset" THEN isProduction
                               ELSE options.secure = "true" ]
    IN  IF options.secret = "" THEN Threw("CSRF secret is required")
        ELSE IF Len(options.secret) < 32 THEN Threw("CSRF secret must be at least 32 characters")
        ELSE IF base64ToBytesThrows(options.secret, hasBuffer)
        THEN Threw("CSRF secret must be valid base64")
        ELSE IF bad # {}
        THEN Threw(originError(allowedOrigins[CHOOSE i \in bad : \A j \in bad : i <= j]))
        ELSE IF cookie.sameSite = "none" /\ ~cookie.secure
        THEN Threw("Cookie sameSite='none' requires secure=true")
        ELSE [ threw |-> FALSE, message |-> "",
               config |-> [ resolvedConfig(DefaultMethods, DefaultMethods) EXCEPT
                              !.secret = secretOf(options.secret),
                              !.allowedOrigins = {allowedOrigins[i] : i \in 1..Len(allowedOrigins)} ],
               cookie |-> cookie ]

SecretInputs ==
    { "", "c2hvcnQ=", "AAECAwQFBgcICQoLDA0ODxAREhMUFRYX",
      "not*base64*not*base64*not*base64", "AAECAwQFBgcICQoLDA0ODxAREhMUFRYXA" }

AllowedOriginsInputs ==
    { [kind |-> "none", list |-> <<>>, text |-> ""],
      [kind |-> "array", list |-> <<AllowedOrigin>>, text |-> ""],
      [kind |-> "array", list |-> <<AllowedOrigin, "partner.example">>, text |-> ""],
      [kind |-> "array", list |-> <<AllowedOrigin \o "/">>, text |-> ""],
      [kind |-> "string", list |-> <<>>, text |-> ""],
      [kind |-> "string", list |-> <<>>, text |-> "https://partner.example, http://localhost ,"],
      [kind |-> "string", list |-> <<>>, text |-> "https://partner.example,localhost"],
      [kind |-> "string", list |-> <<>>, text |-> " https://partner.example/ "] }

OptionsInputs ==
    [ secret : SecretInputs, allowedOrigins : AllowedOriginsInputs,
      sameSite : {"unset", "lax", "none"}, secure : {"unset", "true", "false"} ]

\* a process is about to build its engine: the options, NODE_ENV, and whether
\* the runtime defines Buffer
InitConfig ==
    /\ build \in [ called : {FALSE}, options : OptionsInputs,
                   nodeEnv : {"production", "development"}, hasBuffer : BOOLEAN,
                   made : {Threw("")} ]
    /\ now = OriginClock
    /\ cfg = resolvedConfig(DefaultMethods, DefaultMethods)
    /\ req = NoReq
    /\ mw = NoMw
    /\ jar = NULL
    /\ op = "init"
    /\ res = NoRes
    /\ rot = NoRot
    /\ prevRot = NoRot
    /\ nRot = 0
    /\ nMint = 0
    /\ vin = NoVin
    /\ vout = FALSE
    /\ held = NoHeld

\* const csrfProtect = createCsrfProtect(options)
Create ==
    /\ ~build.called
    /\ build' = [build EXCEPT !.called = TRUE,
                    !.made = createCsrfProtect(build.options, build.nodeEnv, build.hasBuffer)]
    /\ op' = "create"
    /\ UNCHANGED <<now, jar, cfg, req, res, rot, prevRot, nRot, nMint, vin, vout, mw, held>>

\* the engine that was built processes a request
Serve ==
    /\ op = "create"
    /\ ~build.made.threw
    /\ cfg' = build.made.config
    /\ \E r \in { Request("GET", "/otp/send", DocumentNavigation, NULL, NULL),
                  Request("POST", "/api/x", SameOriginFetch, NULL, NULL) } :
        req' = r
    /\ res' = csrfProtect(req', cfg', freshNonce(MaxMint), now)
    /\ op' = "serve"
    /\ UNCHANGED <<now, jar, rot, prevRot, nRot, nMint, vin, vout, mw, build, held>>

NextConfig == Create \/ Serve

SpecConfig == InitConfig /\ [][NextConfig]_vars

----------------------------------------------------------------------------
(* rotateAndSetCsrfToken fed cookie values under the client's control *)

\* tokens a client can build without the secret: any time stamp, missing or
\* extra segments, and a signature segment that is not the HMAC under Secret
ClientBuiltTokens ==
    { f \in ForgedTokens :
        \/ Len(f[1]) < 3
        \/ f[1][3].b # hmacSha256(f[1][1].b \o f[1][2].b, base64ToBytes(Secret)) }

\* the oldToken an auth route reads from the request's cookie at time clock:
\* absent, empty, written by this engine earlier, built by the client, and
\* '|'-joined combinations of these
OldTokenInputs(clock) ==
    {NULL, EmptyStr}
        \cup {issuedCookie(t) : t \in 1..clock}
        \cup {rotatedCookie(t) : t \in 1..(clock - 1)}
        \cup ClientBuiltTokens
        \cup {f \o issuedCookie(1) : f \in ClientBuiltTokens}
        \cup {issuedCookie(1) \o f : f \in ClientBuiltTokens}

\* an auth route is about to rotate the token of a request that arrived; the
\* nonces of the cookies written earlier are used up
InitRotation ==
    /\ now \in 1..MaxNow
    /\ jar \in OldTokenInputs(now)
    /\ cfg = resolvedConfig(DefaultMethods, DefaultMethods)
    /\ op = "init"
    /\ req = NoReq
    /\ res = NoRes
    /\ rot = NoRot
    /\ prevRot = NoRot
    /\ nRot = 0
    /\ nMint = 2
    /\ vin = NoVin
    /\ vout = FALSE
    /\ mw = NoMw
    /\ build = NoBuild
    /\ held = NoHeld

NextRotation == Tick \/ Rotate

SpecRotation == InitRotation /\ [][NextRotation]_vars

----------------------------------------------------------------------------
(* Properties of the Verifier, checked under SpecVerify *)

\* the segments of a one-part token string
segmentsOf(token) == token[1]

\* three segments, a 4-byte timestamp, and a signature segment that decodes to
\* the HMAC of the presented nonce and timestamp bytes under secret
StructurallyValidAndSigned(token, secret) ==
    /\ Len(token) = 1
    /\ Len(segmentsOf(token)) = 3
    /\ Len(segmentsOf(token)[2].b) = 4
    /\ segmentsOf(token)[3].b = hmacSha256(segmentsOf(token)[1].b \o segmentsOf(token)[2].b, secret.b)

issuedAtOf(token) == bigEndianBytesToU32(segmentsOf(token)[2].b)

\* C5: a structurally valid, correctly signed token with issuedAt # 0 is accepted
\* exactly when issuedAt <= now + skew and now - issuedAt <= ttl + skew (both
\* ends of the window inclusive)
C5_FreshnessWindowClosed ==
    (op = "verify" /\ StructurallyValidAndSigned(vin.token, vin.secret)
        /\ issuedAtOf(vin.token) # 0)
    => (vout <=> (/\ issuedAtOf(vin.token) <= now + allowedSkewSeconds
                  /\ now - issuedAtOf(vin.token) <= ttlSeconds + allowedSkewSeconds))

\* a token exactly ttl + skew seconds old has been verified and accepted
C5_Witness ==
    /\ op = "verify"
    /\ StructurallyValidAndSigned(vin.token, vin.secret)
    /\ now - issuedAtOf(vin.token) = ttlSeconds + allowedSkewSeconds
    /\ vout

\* the presented token fails one of the structural checks
StructurallyInvalid(token) ==
    \/ Len(SplitDot(token)) # 3
    \/ Len(SplitDot(token)[2].b) # 4
    \/ bigEndianBytesToU32(SplitDot(token)[2].b) = 0

\* C6: a token whose segment count is not 3, whose timestamp segment is not 4
\* bytes, or whose issuedAt is 0 is rejected whatever its nonce and signature are
C6_StructuralRejection ==
    (op = "verify" /\ StructurallyInvalid(vin.token)) => ~vout

\* a token with an all-zero timestamp that carries the correct HMAC of its own
\* bytes has been verified inside what would be its freshness window
C6_Witness ==
    /\ op = "verify"
    /\ vin.tamper = "forged"
    /\ Len(SplitDot(vin.token)) = 3
    /\ SplitDot(vin.token)[2].b = <<0, 0, 0, 0>>
    /\ SplitDot(vin.token)[3].b = hmacSha256(<<1, 0, 0, 0, 0>>, vin.secret.b)
    /\ now <= ttlSeconds + allowedSkewSeconds
    /\ ~vout

\* C7: a minted token verifies under a secret with the minting key while
\* now - t <= ttl + skew; with a signature bit flipped, the nonce or the
\* timestamp bytes changed, or under a secret with another key, it does not
C7_SignVerifyRoundTrip ==
    (op = "verify" /\ vin.by \in {"generateSignedToken", "rotateAndSetCsrfToken"})
    => /\ (/\ vin.tamper = "none"
           /\ base64ToBytes(vin.secret) = base64ToBytes(vin.mintSecret)
           /\ now - vin.mintedAt <= ttlSeconds + allowedSkewSeconds) => vout
       /\ vin.tamper \in {"signature", "nonce", "timestamp+", "timestamp-"} => ~vout
       /\ base64ToBytes(vin.secret) # base64ToBytes(vin.mintSecret) => ~vout

\* a token minted by rotateAndSetCsrfToken verified, untouched, at the last
\* second of its window
C7_Witness ==
    /\ op = "verify"
    /\ vin.by = "rotateAndSetCsrfToken"
    /\ vin.tamper = "none"
    /\ vin.secret = vin.mintSecret
    /\ now - vin.mintedAt = ttlSeconds + allowedSkewSeconds
    /\ vout

----------------------------------------------------------------------------
(* Properties of rotation, checked under Spec *)

\* the request's method is one the engine validates tokens for on its path
ValidationRequired(r, c) ==
    IF isApiPath(r.pathname)
    THEN r.method \in c.apiMethods /\ r.method # "OPTIONS"
    ELSE r.method \in c.methods /\ r.method \notin {"GET", "HEAD", "OPTIONS"}

OriginPolicyErrors ==
    { "Origin not allowed for CORS preflight", "Cross-origin request blocked",
      "Invalid Sec-Fetch-Site header", "Invalid Sec-Fetch-Mode header",
      "Invalid Sec-Fetch-Dest header", "Invalid accept header for API" }

\* the request was not turned away by the origin and Fetch-Metadata policy
PassedOriginPolicy(result) == result.error \notin OriginPolicyErrors

\* a single token string with three segments and a 4-byte timestamp
HasIssuedAt(token) ==
    /\ Len(token) = 1
    /\ Len(segmentsOf(token)) = 3
    /\ Len(segmentsOf(token)[2].b) = 4

InsideFreshnessWindow(token, clock) ==
    /\ HasIssuedAt(token)
    /\ issuedAtOf(token) <= clock + allowedSkewSeconds
    /\ clock - issuedAtOf(token) <= ttlSeconds + allowedSkewSeconds

\* the last rotation was fed the cookie of the one before, within the grace period
RotatedTwiceWithinGrace ==
    /\ nRot >= 2
    /\ rot.old = prevRot.cookie
    /\ rot.at - prevRot.at <= gracePeriod

\* C8: after two rotations within the grace period, the second fed the first's
\* cookie, the cookie holds the second token first and the first token next, and
\* a validation-required request that passes the origin policy and presents that
\* cookie with either token, inside the token's freshness window, is accepted
C8_TwoRotationsKeepBothTokens ==
    RotatedTwiceWithinGrace =>
        /\ Len(parseMultipleTokens(rot.cookie)) >= 2
        /\ parseMultipleTokens(rot.cookie)[1] = rot.token
        /\ parseMultipleTokens(rot.cookie)[2] = prevRot.token
        /\ (/\ op = "request"
            /\ ValidationRequired(req, cfg)
            /\ req.cookie = rot.cookie
            /\ req.header \in {rot.token, prevRot.token}
            /\ InsideFreshnessWindow(req.header, now)
            /\ PassedOriginPolicy(res)) => res.ok

\* a request presenting the first rotation's token with the second rotation's
\* cookie has been accepted
C8_Witness ==
    /\ RotatedTwiceWithinGrace
    /\ rot.token # prevRot.token
    /\ op = "request"
    /\ ValidationRequired(req, cfg)
    /\ req.cookie = rot.cookie
    /\ req.header = prevRot.token
    /\ res.ok

\* a token of the cookie passed to the last rotation that was older than the
\* grace period when the rotation ran
EvictedAtRotation(token) ==
    /\ nRot >= 1
    /\ token \in TokensOf(rot.old)
    /\ HasIssuedAt(token)
    /\ rot.at - issuedAtOf(token) > gracePeriod

C10_SupersededTokenValidForGrace ==
    (/\ op = "request"
     /\ nRot >= 1
     /\ ValidationRequired(req, cfg)
     /\ req.cookie = rot.cookie
     /\ Len(parseMultipleTokens(rot.old)) >= 1
     /\ req.header = parseMultipleTokens(rot.old)[1]
     /\ now - rot.at <= gracePeriod
     /\ InsideFreshnessWindow(req.header, now)
     /\ PassedOriginPolicy(res)) => res.ok

----------------------------------------------------------------------------
(* Properties of the token check of csrfProtect, checked under SpecToken *)

\* the method is listed in the configuration for the request's kind of path
MethodInValidationSet(r, c) ==
    IF isApiPath(r.pathname) THEN r.method \in c.apiMethods ELSE r.method \in c.methods

\* the header token is non-empty, equals one '|'-separated part of the cookie,
\* has three segments, a 4-byte non-zero issuedAt inside the freshness window,
\* and a signature segment that is the HMAC of nonce||issuedAt under the secret
HeaderTokenValid(r, c, clock) ==
    /\ r.header # NULL
    /\ r.header # EmptyStr
    /\ \E i \in 1..Len(r.cookie) : <<r.cookie[i]>> = r.header
    /\ StructurallyValidAndSigned(r.header, c.secret)
    /\ issuedAtOf(r.header) # 0
    /\ InsideFreshnessWindow(r.header, clock)

\* C1 as stated: for every request whose method is in the configured validation
\* set of its path, csrfProtect returns normally only if the header token is
\* valid, and throws otherwise
C1_SoundForConfiguredMethods ==
    (op = "request" /\ MethodInValidationSet(req, cfg)) =>
        /\ res.ok => HeaderTokenValid(req, cfg, now)
        /\ ~HeaderTokenValid(req, cfg, now) => (~res.ok /\ res.error # "")

\* C1: for every request whose method is in the configured validation set and
\* is not OPTIONS on an API/internal path nor GET, HEAD or OPTIONS on a page
\* path, csrfProtect returns normally only if the header token is valid, and
\* throws a CsrfError otherwise
C1_ValidationSoundness ==
    (op = "request" /\ ValidationRequired(req, cfg)) =>
        /\ res.ok => HeaderTokenValid(req, cfg, now)
        /\ ~HeaderTokenValid(req, cfg, now) => (~res.ok /\ res.error # "")

\* a validated request has been accepted on the older token of a two-token cookie
C1_Witness ==
    /\ op = "request"
    /\ ValidationRequired(req, cfg)
    /\ Len(parseMultipleTokens(req.cookie)) = 2
    /\ req.header = parseMultipleTokens(req.cookie)[2]
    /\ HeaderTokenValid(req, cfg, now)
    /\ res.ok

----------------------------------------------------------------------------
(* Properties of the origin policy of csrfProtect, checked under SpecOrigin *)

\* the Origin header equals the request's origin or the Referer starts with it
SameOriginByHeaders(r) == r.origin = SelfOrigin \/ startsWith(r.referer, SelfOrigin)

\* the Sec-Fetch-* headers are absent or carry a permitted value and the Accept
\* header does not mention text/html
FetchMetadataPermitted(r) ==
    /\ r.secFetchSite \in {"", "same-origin", "same-site"}
    /\ r.secFetchMode \in {"", "cors", "navigate"}
    /\ r.secFetchDest \in {"", "empty", "document"}
    /\ ~includes(toLowerCase(r.accept), "text/html")

\* some token of the cookie is correctly signed and inside the freshness window
CookieTokenValid(r, c, clock) ==
    \E i \in 1..Len(r.cookie) :
        /\ StructurallyValidAndSigned(<<r.cookie[i]>>, c.secret)
        /\ issuedAtOf(<<r.cookie[i]>>) # 0
        /\ InsideFreshnessWindow(<<r.cookie[i]>>, clock)

PostToApiPath == op = "request" /\ req.method = "POST" /\ isApiPath(req.pathname)

C4_OriginGateRunsFirst ==
    (/\ op = "request"
     /\ isApiPath(req.pathname)
     /\ req.origin # SelfOrigin
     /\ ~startsWith(req.referer, SelfOrigin)
     /\ candidateOrigin(req) \notin cfg.allowedOrigins)
    => /\ ~res.ok
       /\ res.error = IF req.method = "OPTIONS"
                      THEN "Origin not allowed for CORS preflight"
                      ELSE "Cross-origin request blocked"
       /\ res.setCookie = NULL
       /\ res.headers = {}

\* a POST from a foreign origin that claims Sec-Fetch-Site same-origin, has an
\* image destination and carries a valid matching token pair has been rejected
\* by the origin gate
C4_Witness ==
    /\ PostToApiPath
    /\ req.origin = EvilOrigin
    /\ req.secFetchSite = "same-origin"
    /\ req.secFetchDest = "image"
    /\ HeaderTokenValid(req, cfg, now)
    /\ res.error = "Cross-origin request blocked"

----------------------------------------------------------------------------
(* Properties of the output of rotateAndSetCsrfToken, checked under Spec *)

\* the '|'-separated parts of the old cookie that are three-segment tokens
\* with a 4-byte time stamp not older than the grace period at time at
SurvivingParts(old, at) ==
    SelectSeq(old, LAMBDA part :
        /\ Len(part) = 3
        /\ Len(part[2].b) = 4
        /\ at - bigEndianBytesToU32(part[2].b) <= gracePeriod)

\* C11: the token a rotation returns is a single token signed at the time of
\* the rotation, the response header is exactly that token, and the cookie is
\* that token followed by the surviving tokens of the old cookie in their
\* previous order
C11_RotationOutput ==
    nRot >= 1 =>
        /\ StructurallyValidAndSigned(rot.token, Secret)
        /\ issuedAtOf(rot.token) = rot.at
        /\ rot.header = rot.token
        /\ rot.cookie = rot.token \o SurvivingParts(rot.old, rot.at)

\* a rotation has kept one token of a two-token cookie and dropped the other
C11_Witness ==
    /\ nRot >= 1
    /\ Len(rot.old) = 2
    /\ Len(rot.cookie) = 2
    /\ rot.cookie[2] = rot.old[1]
    /\ rot.header = rot.token

----------------------------------------------------------------------------
(* Properties of token issuance on page paths, checked under SpecPage *)

SafeMethodOnPage ==
    /\ op = "request"
    /\ req.method \in {"GET", "HEAD", "OPTIONS"}
    /\ ~isApiPath(req.pathname)

\* no Origin header or a same-origin one, Accept contains text/html,
\* Sec-Fetch-Dest is "document"
DocumentNavigationRequest(r) ==
    /\ r.origin \in {"", SelfOrigin}
    /\ includes(r.accept, "text/html")
    /\ r.secFetchDest = "document"

\* no Origin header or a same-origin one, Accept contains */*, Sec-Fetch-Dest
\* is "empty", a non-empty next-url header
SoftNavigationRequest(r) ==
    /\ r.origin \in {"", SelfOrigin}
    /\ includes(r.accept, "*/*")
    /\ r.secFetchDest = "empty"
    /\ r.nextUrl # ""

\* a single token signed under the secret at the given instant
MintedAt(token, c, clock) ==
    /\ token # NULL
    /\ StructurallyValidAndSigned(token, c.secret)
    /\ issuedAtOf(token) = clock

\* C12: a safe-method document navigation to a page path without a token
\* cookie makes csrfProtect mint a token signed at the current time, set the
\* cookie to it and return the same token
C12_FirstIssuance ==
    (SafeMethodOnPage /\ DocumentNavigationRequest(req) /\ req.cookie = NULL) =>
        /\ res.ok
        /\ MintedAt(res.token, cfg, now)
        /\ res.setCookie = res.token

\* a HEAD navigation without Origin header and without cookie got a token
C12_Witness ==
    /\ SafeMethodOnPage
    /\ req.method = "HEAD"
    /\ req.origin = ""
    /\ DocumentNavigationRequest(req)
    /\ req.cookie = NULL
    /\ res.setCookie # NULL
    /\ res.setCookie = res.token

\* the first token of the cookie verifies under the secret, TTL and skew
FirstCookieTokenVerifies(r, c, clock) ==
    /\ Len(parseMultipleTokens(r.cookie)) >= 1
    /\ StructurallyValidAndSigned(parseMultipleTokens(r.cookie)[1], c.secret)
    /\ issuedAtOf(parseMultipleTokens(r.cookie)[1]) # 0
    /\ InsideFreshnessWindow(parseMultipleTokens(r.cookie)[1], clock)

\* C13: on a token-issuing safe-method request whose cookie, written by an
\* issuance or a rotation, has a first token that verifies, csrfProtect
\* returns the existing token and sets no cookie
C13_ReuseOnIssuance ==
    (/\ SafeMethodOnPage
     /\ DocumentNavigationRequest(req) \/ SoftNavigationRequest(req)
     /\ req.cookie \in WrittenCookies
     /\ FirstCookieTokenVerifies(req, cfg, now))
    => /\ res.ok
       /\ res.setCookie = NULL
       /\ res.token \in {req.cookie, parseMultipleTokens(req.cookie)[1]}

\* C14: a safe-method request to a page path that is neither a document
\* navigation nor a soft navigation returns the empty string and sets no
\* cookie, whatever cookie it carries
C14_NoIssuanceOutsideNavigations ==
    (/\ SafeMethodOnPage
     /\ ~DocumentNavigationRequest(req)
     /\ ~SoftNavigationRequest(req))
    => /\ res.ok
       /\ res.token = EmptyStr
       /\ res.setCookie = NULL

\* a cross-origin GET for an HTML document without cookie got no token
C14_Witness ==
    /\ SafeMethodOnPage
    /\ req.origin = EvilOrigin
    /\ includes(req.accept, "text/html")
    /\ req.secFetchDest = "document"
    /\ req.cookie = NULL
    /\ res.ok
    /\ res.token = EmptyStr
    /\ res.setCookie = NULL

----------------------------------------------------------------------------
(* Properties of CORS preflight handling, checked under SpecOrigin *)

\* the Origin header if present, else the origin of the Referer, is allow-listed
FromAllowedOrigin(r, c) ==
    \/ r.origin \in c.allowedOrigins
    \/ r.origin = "" /\ \E o \in c.allowedOrigins : startsWith(r.referer, o \o "/")

\* C15: an OPTIONS request to an API/internal path whose candidate origin is
\* allow-listed returns the empty string, whatever its cookie and header token
\* and even when OPTIONS is listed in apiMethods, and the response gets
\* Access-Control-Allow-Origin (the candidate origin), -Allow-Methods,
\* -Allow-Headers (header name, Content-Type, Authorization),
\* -Allow-Credentials "true" and -Max-Age "86400"
C15_AllowedPreflight ==
    (/\ op = "request"
     /\ req.method = "OPTIONS"
     /\ isApiPath(req.pathname)
     /\ FromAllowedOrigin(req, cfg))
    => /\ res.ok
       /\ res.token = EmptyStr
       /\ res.setCookie = NULL
       /\ res.headers =
            { <<"Access-Control-Allow-Origin", AllowedOrigin>>,
              <<"Access-Control-Allow-Methods", "GET, POST, PUT, PATCH, DELETE, OPTIONS">>,
              <<"Access-Control-Allow-Headers", "x-csrf-token, Content-Type, Authorization">>,
              <<"Access-Control-Allow-Credentials", "true">>,
              <<"Access-Control-Max-Age", "86400">> }

\* a preflight from the allowed origin without any token has been answered
\* by an engine that lists OPTIONS in apiMethods
C15_Witness ==
    /\ op = "request"
    /\ req.method = "OPTIONS"
    /\ isApiPath(req.pathname)
    /\ req.origin = AllowedOrigin
    /\ "OPTIONS" \in cfg.apiMethods
    /\ req.cookie = NULL
    /\ req.header = NULL
    /\ res.ok
    /\ <<"Access-Control-Allow-Origin", AllowedOrigin>> \in res.headers

----------------------------------------------------------------------------
(* Properties of the Fetch-Metadata policy, checked under SpecOrigin *)

FetchMetadataErrors ==
    { "Invalid Sec-Fetch-Site header", "Invalid Sec-Fetch-Mode header",
      "Invalid Sec-Fetch-Dest header", "Invalid accept header for API" }

\* a non-OPTIONS request on an API/internal path that passed the origin gate
\* and whose candidate origin is not allow-listed
SubjectToFetchMetadata ==
    /\ op = "request"
    /\ req.method # "OPTIONS"
    /\ isApiPath(req.pathname)
    /\ SameOriginByHeaders(req)
    /\ ~FromAllowedOrigin(req, cfg)

\* the message of the first failing check in the order Site, Mode, Dest,
\* Accept, or "" when none fails; acceptFails says whether the Accept check fails
FirstFailingCheck(r, acceptFails) ==
    IF r.secFetchSite \notin {"", "same-origin", "same-site"} THEN "Invalid Sec-Fetch-Site header"
    ELSE IF r.secFetchMode \notin {"", "cors", "navigate"} THEN "Invalid Sec-Fetch-Mode header"
    ELSE IF r.secFetchDest \notin {"", "empty", "document"} THEN "Invalid Sec-Fetch-Dest header"
    ELSE IF acceptFails THEN "Invalid accept header for API"
    ELSE ""

C18_AllowListKeepsTokenCheck ==
    (/\ op = "request"
     /\ req.method # "OPTIONS"
     /\ isApiPath(req.pathname)
     /\ FromAllowedOrigin(req, cfg))
    => /\ res.error \notin FetchMetadataErrors
       /\ req.method \in cfg.apiMethods => (res.ok <=> HeaderTokenValid(req, cfg, now))

\* a POST from the allowed origin with cross-site Fetch-Metadata values, an
\* HTML Accept header and a cookie but no header token has been rejected for
\* the missing token
C18_Witness ==
    /\ op = "request"
    /\ req.method = "POST"
    /\ isApiPath(req.pathname)
    /\ req.origin = AllowedOrigin
    /\ req.secFetchSite = "cross-site"
    /\ req.secFetchMode = "no-cors"
    /\ req.accept = "TEXT/HTML"
    /\ req.cookie # NULL
    /\ req.header = NULL
    /\ res.error = "CSRF token is required"

----------------------------------------------------------------------------
(* Properties of the middleware wrapper, checked under SpecMiddleware *)

\* C16: when handleCsrfInMiddleware processes a request from an allow-listed
\* origin to an API path and does not reject it, the response it returns
\* carries Access-Control-Allow-Origin equal to that origin
C16_CorsHeadersReachClient ==
    (/\ op = "middleware"
     /\ mw.fn = "engine"
     /\ isApiPath(req.pathname)
     /\ FromAllowedOrigin(req, cfg)
     /\ res.ok)
    => <<"Access-Control-Allow-Origin", AllowedOrigin>> \in mw.out.response.headers

\* C19: when csrfProtect throws a CsrfError the middleware returns the
\* onError handler's response if a handler was given and otherwise a 403
\* response with body error "Forbidden", never the in-progress response; an
\* error that is not a CsrfError is thrown on to the caller
C19_RejectionMapping ==
    op = "middleware" =>
        /\ (mw.fn = "engine" /\ ~res.ok) =>
              /\ ~mw.out.thrown
              /\ mw.out.response.which # "in-progress"
              /\ mw.out.response = IF mw.onError
                                   THEN Response("onError", 403, {}, res.error)
                                   ELSE Response("json", 403,
                                            {<<"content-type", "application/json">>}, "Forbidden")
        /\ mw.fn = "throwing" => (mw.out.thrown /\ mw.out.error = "Error")

\* a cross-site POST has been rejected by the engine and answered by the
\* caller's onError handler
C19_Witness ==
    /\ op = "middleware"
    /\ mw.fn = "engine"
    /\ mw.onError
    /\ req.method = "POST"
    /\ res.error = "Cross-origin request blocked"
    /\ mw.out.response.which = "onError"
    /\ mw.out.response.body = "Cross-origin request blocked"

----------------------------------------------------------------------------
(* Properties of createCsrfProtect, checked under SpecConfig *)

\* the text has a character outside the base64 alphabet and its padding, or a
\* length that no base64 text has
NotValidBase64(text) ==
    \/ Len(text) % 4 = 1
    \/ \E i \in 1..Len(text) : ~includes(Base64Alphabet \o "=", SubSeq(text, i, i))

\* the origins the options give, as array elements or as the trimmed,
\* non-empty pieces of the comma-separated string
GivenOrigins(o) ==
    LET list == allowedOriginsOf(o.allowedOrigins) IN {list[i] : i \in 1..Len(list)}

\* an empty, short or non-base64 secret, an origin without http(s) scheme or
\* with a trailing '/', or sameSite 'none' with secure resolved to false
BadOptions(o, nodeEnv) ==
    \/ o.secret = ""
    \/ Len(o.secret) < 32
    \/ NotValidBase64(o.secret)
    \/ \E origin \in GivenOrigins(o) :
          \/ ~(startsWith(origin, "http://") \/ startsWith(origin, "https://"))
          \/ endsWith(origin, "/")
    \/ /\ o.sameSite = "none"
       /\ o.secure = "false" \/ (o.secure = "unset" /\ nodeEnv # "production")

\* C20: createCsrfProtect called with such options throws and returns no
\* engine, and no request is processed by an engine built from them
C20_EagerConfigurationCheck ==
    (build.called /\ BadOptions(build.options, build.nodeEnv)) =>
        /\ build.made.threw
        /\ op # "serve"

----------------------------------------------------------------------------
(* Properties of the token response header, checked under SpecMiddleware *)

\* one token string: no '|', three '.'-separated segments
SingleTokenString(value) ==
    /\ Len(value) = 1
    /\ Len(SplitDot(value)) = 3

\* C21: whenever handleCsrfInMiddleware writes the X-CSRF-Token response
\* header, the value is one token string of three segments without '|', also
\* for a request whose cookie holds several tokens after a rotation
C21_SingleTokenInHeader ==
    (/\ op = "middleware"
     /\ ~mw.out.thrown
     /\ mw.out.response.csrfHeader # NULL)
    => SingleTokenString(mw.out.response.csrfHeader)

----------------------------------------------------------------------------
(* Properties of csrfProtect across requests, checked under SpecReplay *)

\* C22: a token-bearing request that csrfProtect accepted is accepted again,
\* with the same cookie value and header token, at every later time at which
\* the header token is still inside its freshness window, whatever rotations,
\* issuances and other requests happened in between
C22_StatelessAcrossRequests ==
    (op = "replay" /\ InsideFreshnessWindow(held.header, now)) => res.ok

\* a request accepted before a rotation has been accepted again after it, at
\* a later time, with a header token that the rotation dropped from the
\* browser's cookie
C22_Witness ==
    /\ op = "replay"
    /\ res.ok
    /\ nRot >= 1
    /\ rot.old = held.cookie
    /\ now > rot.at
    /\ held.header \notin TokensOf(jar)

----------------------------------------------------------------------------
(* Properties of the cookie csrfProtect writes, checked under SpecToken *)

\* C23: csrfProtect sets the token cookie only when it has just minted a
\* token, which is then the cookie's value and the returned token and is not
\* the request's cookie value; on an API/internal path and on every path that
\* ends in a CsrfError no cookie is set
C23_CookieWritesOnlyOnMinting ==
    op = "request" =>
        /\ res.setCookie # NULL =>
              /\ res.ok
              /\ res.setCookie = res.token
              /\ MintedAt(res.token, cfg, now)
              /\ res.token # req.cookie
        /\ isApiPath(req.pathname) => res.setCookie = NULL
        /\ ~res.ok => res.setCookie = NULL

\* a DELETE to a page path without cookie, under a configuration that
\* validates POST only, got a freshly minted token as cookie
C23_Witness ==
    /\ op = "request"
    /\ ~isApiPath(req.pathname)
    /\ req.method = "DELETE"
    /\ req.cookie = NULL
    /\ res.ok
    /\ res.setCookie # NULL
    /\ res.setCookie = res.token

----------------------------------------------------------------------------
(* Properties of unsafe methods on page paths, checked under SpecToken *)

UnsafeMethodOnPage ==
    /\ op = "request"
    /\ ~isApiPath(req.pathname)
    /\ req.method \notin {"GET", "HEAD", "OPTIONS"}

\* C24 as stated: a request with an unsafe method to a page path that is not
\* rejected gets its cookie value back unchanged, with no cookie set, whenever
\* it carries the cookie, and a newly minted token exactly when it carries no
\* cookie
C24_NeverRotateWhenCookiePresent ==
    (UnsafeMethodOnPage /\ res.ok) =>
        /\ req.cookie # NULL => (res.token = req.cookie /\ res.setCookie = NULL)
        /\ res.setCookie # NULL => req.cookie = NULL

\* C24: a request with an unsafe method to a page path that is not rejected
\* gets its cookie value back unchanged, with no cookie set, when its cookie
\* value is non-empty, and a newly minted token that is also set as cookie
\* exactly when the cookie is absent or empty; that lazy issuance happens only
\* for methods outside the page validation set, since for the others an
\* absent or empty cookie is rejected with "CSRF token is required"
C24_UnsafePageMethodsNeverRotate ==
    UnsafeMethodOnPage =>
        /\ (res.ok /\ ~Falsy(req.cookie)) =>
              /\ res.token = req.cookie
              /\ res.setCookie = NULL
        /\ (res.ok /\ Falsy(req.cookie)) =>
              /\ MintedAt(res.token, cfg, now)
              /\ res.setCookie = res.token
              /\ req.method \notin cfg.methods
        /\ (req.method \in cfg.methods /\ Falsy(req.cookie)) =>
              /\ ~res.ok
              /\ res.error = "CSRF token is required"

\* a validated POST to a page path with a rotated two-token cookie and its
\* older token in the header got the whole cookie value back, and no cookie
C24_Witness ==
    /\ UnsafeMethodOnPage
    /\ req.method \in cfg.methods
    /\ Len(parseMultipleTokens(req.cookie)) = 2
    /\ req.header = parseMultipleTokens(req.cookie)[2]
    /\ res.ok
    /\ res.token = req.cookie
    /\ res.setCookie = NULL

----------------------------------------------------------------------------
(* Properties of the order of the cookie's tokens, checked under Spec *)

\* the tokens of the cookie value are ordered by non-increasing issuedAt
NewestFirst(cookieValue) ==
    LET ts == parseMultipleTokens(cookieValue)
    IN  \A i, j \in 1..Len(ts) :
            i < j => /\ HasIssuedAt(ts[i])
                     /\ HasIssuedAt(ts[j])
                     /\ issuedAtOf(ts[i]) >= issuedAtOf(ts[j])

\* C25: starting from no cookie or a cookie written by an issuance, after any
\* sequence of rotations each fed the cookie of the browser, under a clock
\* that never goes back, the tokens of the cookie are ordered by
\* non-increasing issuedAt and the first token is the one minted last
C25_NewestFirst ==
    /\ NewestFirst(jar)
    /\ nRot >= 1 =>
          /\ NewestFirst(rot.cookie)
          /\ parseMultipleTokens(rot.cookie)[1] = rot.token
          /\ issuedAtOf(rot.token) = rot.at
          /\ \A t \in TokensOf(rot.cookie) : issuedAtOf(t) <= rot.at

\* two rotations have left a cookie of three tokens whose first token is
\* younger than its last
C25_Witness ==
    /\ nRot = 2
    /\ Len(parseMultipleTokens(jar)) = 3
    /\ jar = rot.cookie
    /\ issuedAtOf(parseMultipleTokens(jar)[1]) > issuedAtOf(parseMultipleTokens(jar)[3])

----------------------------------------------------------------------------
(* Properties of the origin gate for foreign origins and Referer values,
   checked under SpecOrigin *)

\* C26: a non-OPTIONS request to an API/internal path whose Origin header is
\* non-empty, differs from the request origin and is not allow-listed is
\* rejected with "Cross-origin request blocked", whatever its Referer is
C26_ForeignOriginIsAuthoritative ==
    (/\ op = "request"
     /\ isApiPath(req.pathname)
     /\ req.method # "OPTIONS"
     /\ req.origin # ""
     /\ req.origin # SelfOrigin
     /\ req.origin \notin cfg.allowedOrigins)
    => (~res.ok /\ res.error = "Cross-origin request blocked")


\* C27: a request to an API/internal path whose Origin header is not the
\* request origin, whose Referer URL has another origin than the request
\* origin (even if its text begins with the request-origin string) and whose
\* candidate origin is not allow-listed is rejected by the origin gate
C27_RefererComparedByOrigin ==
    (/\ op = "request"
     /\ isApiPath(req.pathname)
     /\ req.origin # SelfOrigin
     /\ urlOrigin(req.referer) # SelfOrigin
     /\ candidateOrigin(req) \notin cfg.allowedOrigins)
    => /\ ~res.ok
       /\ res.error = IF req.method = "OPTIONS"
                      THEN "Origin not allowed for CORS preflight"
                      ELSE "Cross-origin request blocked"

----------------------------------------------------------------------------
(* Properties of the cookie the middleware hands on, checked under
   SpecMiddleware *)

\* C28: whenever csrfProtect has set the token cookie on the temporary
\* response, the response handleCsrfInMiddleware returns carries a cookie of
\* the same name and value, for every combination of the cookieName given to
\* createCsrfProtect and the one given to handleCsrfInMiddleware
C28_IssuedCookieReachesClient ==
    (/\ op = "middleware"
     /\ mw.fn = "engine"
     /\ res.setCookie # NULL)
    => /\ ~mw.out.thrown
       /\ mw.out.response.cookieName = cfg.cookieName
       /\ mw.out.response.cookie = res.setCookie

----------------------------------------------------------------------------
(* Properties of the tokens a rotation carries over, checked under
   SpecRotation *)

\* C29: after a rotation at time rot.at, for any oldToken including values
\* built by the client, every token of the new cookie after the first has
\* three segments and a 4-byte time stamp with 0 <= rot.at - issuedAt <=
\* gracePeriod: none dated in the future, none older than the grace period
C29_OnlyInGraceTokensCarriedOver ==
    nRot >= 1 =>
        \A i \in 2..Len(parseMultipleTokens(rot.cookie)) :
            LET t == parseMultipleTokens(rot.cookie)[i]
            IN  /\ HasIssuedAt(t)
                /\ 0 <= rot.at - issuedAtOf(t)
                /\ rot.at - issuedAtOf(t) <= gracePeriod

----------------------------------------------------------------------------
(* Properties of the token csrfProtect returns on API paths, checked under
   SpecToken *)

\* C30: whenever csrfProtect accepts a validation-required request on an
\* API/internal path and returns a non-empty token, that token is correctly
\* signed under the secret and inside the freshness window, for every cookie
\* value, also one whose first token is not the header token that matched
C30_ReturnedTokenIsValid ==
    (/\ op = "request"
     /\ isApiPath(req.pathname)
     /\ ValidationRequired(req, cfg)
     /\ res.ok
     /\ res.token # EmptyStr)
    => /\ StructurallyValidAndSigned(res.token, cfg.secret)
       /\ issuedAtOf(res.token) # 0
       /\ InsideFreshnessWindow(res.token, now)

====
